---- MODULE Spec2Model ----
(***************************************************************************)
(* Model of the voice assistant of src/main.py (class VoiceAssistant):     *)
(* the main thread (run / listen_for_input), the audio_listener thread,    *)
(* the process_audio thread with the command routine process_user_input,   *)
(* the lru_cache'd get_ollama_response and speak.                          *)
(*                                                                         *)
(* A text is a sequence of one-character strings, so that the regular      *)
(* expression of _is_wake_word_detected and the substring test for the     *)
(* exit phrase are computed character by character.                        *)
(***************************************************************************)
EXTENDS Integers, Sequences, FiniteSets, TLC

(***************************************************************************)
(* Bounds of the model.                                                    *)
(***************************************************************************)
\* how many captures the audio_listener thread starts in one run
MaxCaptures == 2
\* the largest configured max_history_length that Init draws
MaxHistoryLength == 2

(***************************************************************************)
(* Characters and texts.                                                   *)
(***************************************************************************)
LowerAlpha ==
    << "a","b","c","d","e","f","g","h","i","j","k","l","m",
       "n","o","p","q","r","s","t","u","v","w","x","y","z" >>

UpperAlpha ==
    << "A","B","C","D","E","F","G","H","I","J","K","L","M",
       "N","O","P","Q","R","S","T","U","V","W","X","Y","Z" >>

Digits == { "0","1","2","3","4","5","6","7","8","9" }

Range(s) == { s[i] : i \in DOMAIN s }

\* str.lower() on one character
LowerChar(c) ==
    IF \E i \in DOMAIN UpperAlpha : UpperAlpha[i] = c
    THEN LowerAlpha[CHOOSE i \in DOMAIN UpperAlpha : UpperAlpha[i] = c]
    ELSE c

\* str.lower() of recognizer.recognize_google(audio).lower()
Lower(s) == [ i \in DOMAIN s |-> LowerChar(s[i]) ]

\* the characters the regular expression class \w matches
IsWordChar(c) == c \in Range(LowerAlpha) \cup Range(UpperAlpha) \cup Digits \cup { "_" }

\* a variant of WordBoundary for a pattern without \b
WordBoundaryAnywhere(s, p) == TRUE

\* \b at the position after the first p characters of s
WordBoundary(s, p) ==
    LET before == p >= 1 /\ IsWordChar(s[p])
        after  == p < Len(s) /\ IsWordChar(s[p + 1])
    IN  before # after

\* the literal w occurs in s right after the first p characters;
\* ic is re.IGNORECASE
LiteralAt(s, w, p, ic) ==
    /\ p + Len(w) <= Len(s)
    /\ \A k \in 1..Len(w) :
          IF ic THEN LowerChar(s[p + k]) = LowerChar(w[k])
                ELSE s[p + k] = w[k]

Space == << " " >>
Hey == << "h","e","y" >>
Cortana == << "c","o","r","t","a","n","a" >>
Goodbye == << "g","o","o","d","b","y","e" >>

\* os.getenv('WAKE_WORD', 'hey cortana')
wake_word == Hey \o Space \o Cortana

\* the literal of the exit test in process_audio
ExitPhrase == Goodbye \o Space \o Cortana

\* re.compile(rf'\b{re.escape(wake_word)}\b', re.IGNORECASE).search(text)
is_wake_word_detected(text) ==
    \E p \in 0..Len(text) :
        /\ WordBoundary(text, p)
        /\ LiteralAt(text, wake_word, p, TRUE)
        /\ WordBoundary(text, p + Len(wake_word))

\* a variant of ExitPhraseIn that tests text == "goodbye cortana"
ExitPhraseEquals(text) == text = ExitPhrase

\* "goodbye cortana" in text
ExitPhraseIn(text) ==
    \E p \in 0..Len(text) : LiteralAt(text, ExitPhrase, p, FALSE)

(***************************************************************************)
(* What the speech recognizer may return (before .lower()).                *)
(***************************************************************************)
RawWake  == << "H","e","y" >> \o Space \o << "C" >> \o Tail(Cortana)
RawExit  == << "G" >> \o Tail(Goodbye) \o Space \o Cortana
RawBoth  == Hey \o Space \o Cortana \o Space \o Goodbye \o Space \o Cortana
RawOther == << "t" >> \o Hey \o Space \o Cortana

RawUtterances == { RawWake, RawExit, RawBoth, RawOther }

RawQuery1 == << "W","h","a","t"," ","i","s"," ","2"," ","p","l","u","s"," ","2" >>
RawQuery2 == << "h","i" >>

RawQueries == { RawQuery1, RawQuery2 }

\* the reply texts the backend may put in message.content.  A text that the
\* program never looks into is written as a one-element sequence holding the
\* whole literal.
Replies == { << "4" >>, << "hello" >> }


(***************************************************************************)
(* The literals passed to speak and returned by get_ollama_response.       *)
(***************************************************************************)
GreetingText   == << "Hi, I am your Cortana AI assistant." >>
StoppedText    == << "Assistant manually stopped." >>
AckText        == << "Yes, just a moment." >>
PromptText     == << "How can I help you?" >>
FarewellText   == << "Goodbye! Shutting down." >>
TimeoutText    == << "Listening timeout. Please try again." >>
SorryText      == << "Sorry, I couldn't understand what you said." >>
UnexpectedText == << "An unexpected error occurred. Please try again." >>
Fallback ==
    << "Sorry, I'm experiencing technical difficulties connecting to my AI system." >>

\* the failures of requests.post that are a requests.RequestException
\* (raise_for_status on an error status is handled like "network")
RequestExceptions == { "network", "timeout" }

\* @lru_cache(maxsize=64)
CacheMaxSize == 64

Callers == { "main", "processor", "pool" }

\* how many calls speak_calls keeps
SpeakWindow == 4

VARIABLES
    max_history_length,    \* self.config['max_history_length']
    elevenlabs_client,     \* TRUE iff self.elevenlabs_client is not None
    audio_queue,           \* self.audio_queue
    stop_event,            \* self.stop_event
    conversation_history,  \* self.conversation_history
    cache,                 \* the lru_cache of get_ollama_response, oldest first
    mainPc,                \* position of the main thread in run / listen_for_input
    lisPc,                 \* position of the audio_listener thread
    procPc,                \* position of the process_audio thread
    lisText,               \* text of audio_listener
    text,                  \* text of process_audio, << >> before the first get
    user_query,            \* user_query of process_user_input
    response,              \* response of process_user_input
    payload,               \* payload["messages"] of the request in flight
    speak_calls,           \* the last SpeakWindow calls of speak (caller and
                           \* text) since process_audio took its current
                           \* item, in call order
    inSpeak,               \* the callers that are inside speak
    playing,               \* the callers whose generate_and_play is running
    captures,              \* captures started by audio_listener
    last_exchange,         \* the call of get_ollama_response made for the
                           \* current item
    answered,              \* the << query, reply >> pairs the backend has served
    lis_error,             \* the latest capture of audio_listener ended in the
                           \* except Exception clause
    putInCommand,          \* audio_listener has put a text while the
                           \* command routine for the current item was running
    capture_result         \* how the _recognize_audio call of
                           \* process_user_input for the current item ended

vars ==
    << max_history_length, elevenlabs_client, audio_queue, stop_event,
       conversation_history, cache, mainPc, lisPc, procPc, lisText, text,
       user_query, response, payload, speak_calls, inSpeak, playing, captures,
       last_exchange, answered, putInCommand, capture_result, lis_error >>

procLocals == << text, capture_result >>
configVars == << max_history_length, elevenlabs_client >>
speakVars  == << speak_calls, inSpeak, playing >>
cmdVars    == << user_query, response, payload, conversation_history, cache,
                 last_exchange, answered >>

(***************************************************************************)
(* conversation_history                                                    *)
(***************************************************************************)
UserTurn(q)      == [ role |-> "user", content |-> q ]
AssistantTurn(r) == [ role |-> "assistant", content |-> r ]

\* with self.conversation_lock: append the user turn, pop(0) if too long
AppendUserTurn(h, q, max) ==
    LET h1 == Append(h, UserTurn(q))
    IN  IF Len(h1) > max THEN Tail(h1) ELSE h1

\* a variant of AppendAssistantTurn that puts the turn in front
AppendAssistantTurnFront(h, r) == << AssistantTurn(r) >> \o h

\* with self.conversation_lock: append the assistant turn
AppendAssistantTurn(h, r) == Append(h, AssistantTurn(r))

(***************************************************************************)
(* functools.lru_cache around get_ollama_response                          *)
(***************************************************************************)
CacheHit(c, q) == \E i \in DOMAIN c : c[i].key = q

CacheGet(c, q) == c[CHOOSE i \in DOMAIN c : c[i].key = q].value

\* a hit makes the entry the most recently used one
CacheTouch(c, q) ==
    LET i == CHOOSE j \in DOMAIN c : c[j].key = q
    IN  SubSeq(c, 1, i - 1) \o SubSeq(c, i + 1, Len(c)) \o << c[i] >>

\* a variant of CachePut that stores nothing
CachePutNothing(c, q, r) == c

\* the value the call returned is stored; a full cache drops its oldest entry
CachePut(c, q, r) ==
    LET c1 == Append(c, [ key |-> q, value |-> r ])
    IN  IF Len(c1) > CacheMaxSize THEN Tail(c1) ELSE c1

(***************************************************************************)
(* queue.Queue(): maxsize 0, put never waits for room                      *)
(***************************************************************************)
\* a variant of QueueCanPut for queue.Queue(maxsize=1)
QueueCanPutBounded(q) == Len(q) < 1

QueueCanPut(q) == TRUE

(***************************************************************************)
(* speak                                                                   *)
(***************************************************************************)
\* the caller is not inside speak
Ready(t) == t \notin inSpeak

\* the window of speak_calls
LastCalls(s) ==
    IF Len(s) > SpeakWindow THEN SubSeq(s, Len(s) - SpeakWindow + 1, Len(s)) ELSE s

\* speak(text) called by t: without a client it returns at once; otherwise
\* generate_and_play is submitted to a fresh one-worker executor and the
\* caller enters the exit of the with block
Speak(t, txt) ==
    /\ speak_calls' = LastCalls(Append(speak_calls, [ caller |-> t, text |-> txt ]))
    /\ IF elevenlabs_client
       THEN /\ inSpeak' = inSpeak \cup { t }
            /\ playing' = playing \cup { t }
       ELSE UNCHANGED << inSpeak, playing >>

\* generate_and_play of t's executor ends (played, or the error was logged)
GenerateAndPlay(t) ==
    /\ t \in playing
    /\ playing' = playing \ { t }
    /\ UNCHANGED << configVars, audio_queue, stop_event, cmdVars, mainPc, lisPc,
                    procPc, lisText, lis_error, procLocals, speak_calls, inSpeak, captures,
                    putInCommand >>

\* the exit of the with block: executor.shutdown(wait=True) returns once the
\* worker has finished
SpeakReturn(t) ==
    /\ t \in inSpeak
    /\ t \notin playing
    /\ inSpeak' = inSpeak \ { t }
    /\ UNCHANGED << configVars, audio_queue, stop_event, cmdVars, mainPc, lisPc,
                    procPc, lisText, lis_error, procLocals, speak_calls, playing, captures,
                    putInCommand >>

\* a call of get_ollama_response: its query, conversation_history before and
\* after it, how it ended and what it returned (<< >>: nothing)
Exchange(q, before, kind, returned, after) ==
    [ query |-> q, before |-> before, kind |-> kind, returned |-> returned,
      after |-> after ]

Init ==
    /\ max_history_length \in 0..MaxHistoryLength
    /\ elevenlabs_client \in BOOLEAN
    /\ audio_queue = << >>
    /\ stop_event = FALSE
    /\ conversation_history = << >>
    /\ cache = << >>
    /\ mainPc = "run"
    /\ lisPc = "new"
    /\ procPc = "new"
    /\ lisText = << >>
    /\ text = << >>
    /\ user_query = << >>
    /\ response = << >>
    /\ payload = << >>
    /\ speak_calls = << >>
    /\ inSpeak = { }
    /\ playing = { }
    /\ captures = 0
    /\ last_exchange = Exchange(<< >>, << >>, "none", << >>, << >>)
    /\ answered = { }
    /\ putInCommand = FALSE
    /\ capture_result = "none"
    /\ lis_error = FALSE


lisVars == << lisPc, lisText, captures, lis_error >>

\* the positions of process_audio that lie inside process_user_input
CommandPcs ==
    { "cmd_mic", "cmd_listen", "cmd_exchange", "cmd_post", "cmd_speak",
      "cmd_join", "cmd_unexpected" }

(***************************************************************************)
(* The main thread: run and listen_for_input                               *)
(***************************************************************************)
\* run: self.speak("Hi, I am your Cortana AI assistant.")
MainGreet ==
    /\ mainPc = "run"
    /\ Speak("main", GreetingText)
    /\ mainPc' = "start"
    /\ UNCHANGED << configVars, audio_queue, stop_event, cmdVars, lisVars,
                    procPc, procLocals, putInCommand >>

\* listen_for_input: both threads are created and started
MainStart ==
    /\ mainPc = "start"
    /\ Ready("main")
    /\ lisPc' = "check"
    /\ procPc' = "check"
    /\ mainPc' = "join_listener"
    /\ UNCHANGED << configVars, audio_queue, stop_event, cmdVars, lisText, lis_error,
                    captures, procLocals, speakVars, putInCommand >>

\* listener_thread.join() returns
MainJoinListener ==
    /\ mainPc = "join_listener"
    /\ lisPc = "done"
    /\ mainPc' = "join_processor"
    /\ UNCHANGED << configVars, audio_queue, stop_event, cmdVars, lisVars,
                    procPc, procLocals, speakVars, putInCommand >>

\* processor_thread.join() returns; listen_for_input returns to run, whose
\* finally clause calls self.stop_event.set()
MainJoinProcessor ==
    /\ mainPc = "join_processor"
    /\ procPc = "done"
    /\ stop_event' = TRUE
    /\ mainPc' = "exited"
    /\ UNCHANGED << configVars, audio_queue, cmdVars, lisVars, procPc, procLocals,
                    speakVars, putInCommand >>

\* KeyboardInterrupt inside the try of listen_for_input:
\* self.stop_event.set(), listen_for_input returns to run, whose finally
\* clause calls self.stop_event.set() again
MainKeyboardInterrupt ==
    /\ mainPc \in { "join_listener", "join_processor" }
    /\ stop_event' = TRUE
    /\ mainPc' = "exited"
    /\ UNCHANGED << configVars, audio_queue, cmdVars, lisVars, procPc, procLocals,
                    speakVars, putInCommand >>

\* KeyboardInterrupt in run before listen_for_input has started the threads;
\* a pending exit of speak's with block still waits for its worker
MainInterruptGreeting ==
    /\ mainPc \in { "run", "start" }
    /\ mainPc' = "interrupted"
    /\ UNCHANGED << configVars, audio_queue, stop_event, cmdVars, lisVars,
                    procPc, procLocals, speakVars, putInCommand >>

\* KeyboardInterrupt in listen_for_input while the threads are being started
\* (lines 223-224, before the try of line 226): it propagates to run with the
\* listener thread running and the processor thread started or not, and
\* run's except KeyboardInterrupt clause calls
\* self.speak("Assistant manually stopped.")
MainStartInterrupted(procStarted) ==
    /\ mainPc = "start"
    /\ Ready("main")
    /\ lisPc' = "check"
    /\ procPc' = IF procStarted THEN "check" ELSE "new"
    /\ Speak("main", StoppedText)
    /\ mainPc' = "finally"
    /\ UNCHANGED << configVars, audio_queue, stop_event, cmdVars, lisText,
                    lis_error, captures, procLocals, putInCommand >>

\* run: except KeyboardInterrupt: self.speak("Assistant manually stopped.")
MainStopped ==
    /\ mainPc = "interrupted"
    /\ Ready("main")
    /\ Speak("main", StoppedText)
    /\ mainPc' = "finally"
    /\ UNCHANGED << configVars, audio_queue, stop_event, cmdVars, lisVars,
                    procPc, procLocals, putInCommand >>

\* run: finally: self.stop_event.set()
MainFinally ==
    /\ mainPc = "finally"
    /\ Ready("main")
    /\ stop_event' = TRUE
    /\ mainPc' = "exited"
    /\ UNCHANGED << configVars, audio_queue, cmdVars, lisVars, procPc, procLocals,
                    speakVars, putInCommand >>

(***************************************************************************)
(* The audio_listener thread                                               *)
(***************************************************************************)
\* while not self.stop_event.is_set(): the loop ends
LisStop ==
    /\ lisPc = "check"
    /\ stop_event
    /\ lisPc' = "done"
    /\ UNCHANGED << configVars, audio_queue, stop_event, cmdVars, mainPc,
                    procPc, lisText, lis_error, captures, procLocals, speakVars, putInCommand >>

\* while not self.stop_event.is_set(): the next iteration starts
LisBegin ==
    /\ lisPc = "check"
    /\ ~stop_event
    /\ captures < MaxCaptures
    /\ captures' = captures + 1
    /\ lisPc' = "capture"
    /\ lis_error' = FALSE
    /\ UNCHANGED << configVars, audio_queue, stop_event, cmdVars, mainPc,
                    procPc, lisText, procLocals, speakVars, putInCommand >>

\* text = self._recognize_audio(source)
LisHeard(raw) ==
    /\ lisPc = "capture"
    /\ lisText' = Lower(raw)
    /\ lisPc' = "put"
    /\ UNCHANGED << configVars, lis_error, audio_queue, stop_event, cmdVars, mainPc,
                    procPc, captures, procLocals, speakVars, putInCommand >>

\* except (sr.UnknownValueError, sr.WaitTimeoutError): continue
LisUnintelligible ==
    /\ lisPc = "capture"
    /\ lisPc' = "check"
    /\ UNCHANGED << configVars, audio_queue, stop_event, cmdVars, mainPc,
                    procPc, lisText, lis_error, captures, procLocals, speakVars, putInCommand >>

\* except Exception as e: logged (sr.Microphone() or the recognizer failed)
LisError ==
    /\ lisPc = "capture"
    /\ lisPc' = "check"
    /\ lis_error' = TRUE
    /\ UNCHANGED << configVars, audio_queue, stop_event, cmdVars, mainPc,
                    procPc, lisText, captures, procLocals, speakVars, putInCommand >>

\* self.audio_queue.put(text)
LisPut ==
    /\ lisPc = "put"
    /\ QueueCanPut(audio_queue)
    /\ audio_queue' = Append(audio_queue, lisText)
    /\ lisPc' = "check"
    /\ putInCommand' = (putInCommand \/ procPc \in CommandPcs)
    /\ UNCHANGED << configVars, stop_event, cmdVars, mainPc, procPc, lisText, lis_error,
                    captures, procLocals, speakVars >>


(***************************************************************************)
(* The process_audio thread                                                *)
(***************************************************************************)
\* while not self.stop_event.is_set(): the loop ends
ProcStop ==
    /\ procPc = "check"
    /\ Ready("processor")
    /\ stop_event
    /\ procPc' = "done"
    /\ UNCHANGED << configVars, audio_queue, stop_event, cmdVars, mainPc,
                    lisVars, procLocals, speakVars, putInCommand >>

\* a variant of ProcPoll for a loop that does not test stop_event
ProcPollAlways ==
    /\ procPc = "check"
    /\ Ready("processor")
    /\ procPc' = "get"
    /\ UNCHANGED << configVars, audio_queue, stop_event, cmdVars, mainPc,
                    lisVars, procLocals, speakVars, putInCommand >>

\* while not self.stop_event.is_set(): the next iteration starts
ProcPoll ==
    /\ procPc = "check"
    /\ Ready("processor")
    /\ ~stop_event
    /\ procPc' = "get"
    /\ UNCHANGED << configVars, audio_queue, stop_event, cmdVars, mainPc,
                    lisVars, procLocals, speakVars, putInCommand >>

\* text = self.audio_queue.get(timeout=1)
\* The observation variables speak_calls, last_exchange, capture_result and
\* putInCommand describe the handling of one queue item: they start afresh
\* when process_audio takes the next item.
ProcGet ==
    /\ procPc = "get"
    /\ audio_queue # << >>
    /\ text' = Head(audio_queue)
    /\ audio_queue' = Tail(audio_queue)
    /\ procPc' = "wake_test"
    /\ speak_calls' = << >>
    /\ last_exchange' = Exchange(<< >>, << >>, "none", << >>, << >>)
    /\ capture_result' = "none"
    /\ putInCommand' = FALSE
    /\ UNCHANGED << configVars, stop_event, user_query, response, payload,
                    conversation_history, cache, answered, mainPc, lisVars,
                    inSpeak, playing >>

\* except queue.Empty: continue
ProcEmpty ==
    /\ procPc = "get"
    /\ audio_queue = << >>
    /\ procPc' = "check"
    /\ UNCHANGED << configVars, audio_queue, stop_event, cmdVars, mainPc,
                    lisVars, procLocals, speakVars, putInCommand >>

\* if self._is_wake_word_detected(text): self.speak("Yes, just a moment.")
ProcWake ==
    /\ procPc = "wake_test"
    /\ is_wake_word_detected(text)
    /\ Speak("processor", AckText)
    /\ procPc' = "cmd_mic"
    /\ UNCHANGED << configVars, audio_queue, stop_event, cmdVars, mainPc,
                    lisVars, procLocals, putInCommand >>

\* the wake word is not in text
ProcNoWake ==
    /\ procPc = "wake_test"
    /\ ~is_wake_word_detected(text)
    /\ procPc' = "exit_test"
    /\ UNCHANGED << configVars, audio_queue, stop_event, cmdVars, mainPc,
                    lisVars, procLocals, speakVars, putInCommand >>

\* if "goodbye cortana" in text: self.speak("Goodbye! Shutting down.")
ProcExit ==
    /\ procPc = "exit_test"
    /\ Ready("processor")
    /\ ExitPhraseIn(text)
    /\ Speak("processor", FarewellText)
    /\ procPc' = "exit_set"
    /\ UNCHANGED << configVars, audio_queue, stop_event, cmdVars, mainPc,
                    lisVars, procLocals, putInCommand >>

\* the exit phrase is not in text: back to the loop condition
ProcNoExit ==
    /\ procPc = "exit_test"
    /\ Ready("processor")
    /\ ~ExitPhraseIn(text)
    /\ procPc' = "check"
    /\ UNCHANGED << configVars, audio_queue, stop_event, cmdVars, mainPc,
                    lisVars, procLocals, speakVars, putInCommand >>

\* self.stop_event.set(); sys.exit()
ProcShutdown ==
    /\ procPc = "exit_set"
    /\ Ready("processor")
    /\ stop_event' = TRUE
    /\ procPc' = "done"
    /\ UNCHANGED << configVars, audio_queue, cmdVars, mainPc, lisVars, procLocals,
                    speakVars, putInCommand >>

(***************************************************************************)
(* process_user_input                                                      *)
(***************************************************************************)
\* with sr.Microphone() as source: self.speak("How can I help you?")
CmdPrompt ==
    /\ procPc = "cmd_mic"
    /\ Ready("processor")
    /\ Speak("processor", PromptText)
    /\ procPc' = "cmd_listen"
    /\ UNCHANGED << configVars, audio_queue, stop_event, cmdVars, mainPc,
                    lisVars, procLocals, putInCommand >>

\* sr.Microphone() raises: except Exception
CmdMicError ==
    /\ procPc = "cmd_mic"
    /\ Ready("processor")
    /\ procPc' = "cmd_unexpected"
    /\ UNCHANGED << configVars, audio_queue, stop_event, cmdVars, mainPc,
                    lisVars, procLocals, speakVars, putInCommand >>

\* user_query = self._recognize_audio(source, timeout=5)
CmdHeard(raw) ==
    /\ procPc = "cmd_listen"
    /\ Ready("processor")
    /\ user_query' = Lower(raw)
    /\ procPc' = "cmd_exchange"
    /\ capture_result' = "text"
    /\ UNCHANGED << configVars, audio_queue, stop_event, response, payload,
                    conversation_history, cache, last_exchange, answered,
                    mainPc, lisVars, text, speakVars, putInCommand >>

\* a variant of CmdTimeout that goes on to the backend call
CmdTimeoutFallsThrough ==
    /\ procPc = "cmd_listen"
    /\ Ready("processor")
    /\ capture_result' = "timeout"
    /\ procPc' = "cmd_exchange"
    /\ UNCHANGED << configVars, audio_queue, stop_event, cmdVars, mainPc,
                    lisVars, text, speakVars, putInCommand >>

\* except sr.WaitTimeoutError: self.speak("Listening timeout. Please try again.")
CmdTimeout ==
    /\ procPc = "cmd_listen"
    /\ Ready("processor")
    /\ Speak("processor", TimeoutText)
    /\ procPc' = "exit_test"
    /\ capture_result' = "timeout"
    /\ UNCHANGED << configVars, audio_queue, stop_event, cmdVars, mainPc,
                    lisVars, text, putInCommand >>

\* except sr.UnknownValueError: self.speak("Sorry, I couldn't understand ...")
CmdUnknownValue ==
    /\ procPc = "cmd_listen"
    /\ Ready("processor")
    /\ Speak("processor", SorryText)
    /\ procPc' = "exit_test"
    /\ capture_result' = "unknown"
    /\ UNCHANGED << configVars, audio_queue, stop_event, cmdVars, mainPc,
                    lisVars, text, putInCommand >>

\* _recognize_audio raises anything else: except Exception
CmdListenError ==
    /\ procPc = "cmd_listen"
    /\ Ready("processor")
    /\ procPc' = "cmd_unexpected"
    /\ capture_result' = "error"
    /\ UNCHANGED << configVars, audio_queue, stop_event, cmdVars, mainPc,
                    lisVars, text, speakVars, putInCommand >>

\* except Exception as e: self.speak("An unexpected error occurred. ...")
CmdUnexpected ==
    /\ procPc = "cmd_unexpected"
    /\ Speak("processor", UnexpectedText)
    /\ procPc' = "exit_test"
    /\ UNCHANGED << configVars, audio_queue, stop_event, cmdVars, mainPc,
                    lisVars, procLocals, putInCommand >>

(***************************************************************************)
(* get_ollama_response, run by executor.submit in process_user_input while *)
(* the process_audio thread waits in response_future.result()              *)
(***************************************************************************)
\* lru_cache: the key is in the cache, the function body does not run
ExchangeHit ==
    /\ procPc = "cmd_exchange"
    /\ CacheHit(cache, user_query)
    /\ response' = CacheGet(cache, user_query)
    /\ cache' = CacheTouch(cache, user_query)
    /\ last_exchange' = Exchange(user_query, conversation_history, "hit",
                                 CacheGet(cache, user_query),
                                 conversation_history)
    /\ procPc' = "cmd_speak"
    /\ UNCHANGED << configVars, audio_queue, stop_event, user_query, payload,
                    conversation_history, answered, mainPc, lisVars, procLocals,
                    speakVars, putInCommand >>

\* a variant of ExchangeMiss whose request holds the messages as they were
\* before the user turn was appended
ExchangeMissStalePayload ==
    /\ procPc = "cmd_exchange"
    /\ ~CacheHit(cache, user_query)
    /\ conversation_history' =
           AppendUserTurn(conversation_history, user_query, max_history_length)
    /\ payload' = conversation_history
    /\ last_exchange' = Exchange(user_query, conversation_history, "pending",
                                 << >>, << >>)
    /\ procPc' = "cmd_post"
    /\ UNCHANGED << configVars, audio_queue, stop_event, user_query, response,
                    cache, answered, mainPc, lisVars, procLocals, speakVars,
                    putInCommand >>

\* lru_cache miss: the body runs up to requests.post
ExchangeMiss ==
    /\ procPc = "cmd_exchange"
    /\ ~CacheHit(cache, user_query)
    /\ conversation_history' =
           AppendUserTurn(conversation_history, user_query, max_history_length)
    /\ payload' = conversation_history'
    /\ last_exchange' = Exchange(user_query, conversation_history, "pending",
                                 << >>, << >>)
    /\ procPc' = "cmd_post"
    /\ UNCHANGED << configVars, audio_queue, stop_event, user_query, response,
                    cache, answered, mainPc, lisVars, procLocals, speakVars,
                    putInCommand >>

\* the backend answers with message.content = r
BackendOk(r) ==
    /\ procPc = "cmd_post"
    /\ conversation_history' = AppendAssistantTurn(conversation_history, r)
    /\ response' = r
    /\ cache' = CachePut(cache, user_query, r)
    /\ last_exchange' = Exchange(user_query, last_exchange.before, "ok", r,
                                 conversation_history')
    /\ answered' = answered \cup { << user_query, r >> }
    /\ procPc' = "cmd_speak"
    /\ UNCHANGED << configVars, audio_queue, stop_event, user_query, payload,
                    mainPc, lisVars, procLocals, speakVars, putInCommand >>

\* except requests.RequestException: the fallback string is returned, and
\* lru_cache stores what the call returned
BackendRequestException(kind) ==
    /\ procPc = "cmd_post"
    /\ response' = Fallback
    /\ cache' = CachePut(cache, user_query, Fallback)
    /\ last_exchange' = Exchange(user_query, last_exchange.before, kind,
                                 Fallback, conversation_history)
    /\ procPc' = "cmd_speak"
    /\ UNCHANGED << configVars, audio_queue, stop_event, user_query, payload,
                    conversation_history, answered, mainPc, lisVars, procLocals,
                    speakVars, putInCommand >>

\* a variant of BackendMalformed in which the KeyError leaves
\* process_user_input and ends the process_audio thread
BackendMalformedEscapes ==
    /\ procPc = "cmd_post"
    /\ last_exchange' = Exchange(user_query, last_exchange.before, "malformed",
                                 << >>, conversation_history)
    /\ procPc' = "done"
    /\ UNCHANGED << configVars, audio_queue, stop_event, user_query, response,
                    payload, conversation_history, cache, answered, mainPc,
                    lisVars, procLocals, speakVars, putInCommand >>

\* response.json()['message']['content'] raises KeyError: not a
\* RequestException, so it leaves get_ollama_response (nothing is cached) and
\* response_future.result() raises it in process_user_input
BackendMalformed ==
    /\ procPc = "cmd_post"
    /\ last_exchange' = Exchange(user_query, last_exchange.before, "malformed",
                                 << >>, conversation_history)
    /\ procPc' = "cmd_unexpected"
    /\ UNCHANGED << configVars, audio_queue, stop_event, user_query, response,
                    payload, conversation_history, cache, answered, mainPc,
                    lisVars, procLocals, speakVars, putInCommand >>

\* executor.submit(self.speak, response): speak runs on the pool thread
CmdSpeak ==
    /\ procPc = "cmd_speak"
    /\ Speak("pool", response)
    /\ procPc' = "cmd_join"
    /\ UNCHANGED << configVars, audio_queue, stop_event, cmdVars, mainPc,
                    lisVars, procLocals, putInCommand >>

\* the exit of the with block of process_user_input waits for the pool
CmdReturn ==
    /\ procPc = "cmd_join"
    /\ Ready("pool")
    /\ procPc' = "exit_test"
    /\ UNCHANGED << configVars, audio_queue, stop_event, cmdVars, mainPc,
                    lisVars, procLocals, speakVars, putInCommand >>

Next ==
    \/ MainGreet
    \/ MainStart
    \/ MainJoinListener
    \/ MainJoinProcessor
    \/ MainKeyboardInterrupt
    \/ MainInterruptGreeting
    \/ \E procStarted \in BOOLEAN : MainStartInterrupted(procStarted)
    \/ MainStopped
    \/ MainFinally
    \/ LisStop
    \/ LisBegin
    \/ \E raw \in RawUtterances : LisHeard(raw)
    \/ LisUnintelligible
    \/ LisError
    \/ LisPut
    \/ ProcStop
    \/ ProcPoll
    \/ ProcGet
    \/ ProcEmpty
    \/ ProcWake
    \/ ProcNoWake
    \/ ProcExit
    \/ ProcNoExit
    \/ ProcShutdown
    \/ CmdPrompt
    \/ CmdMicError
    \/ \E raw \in RawQueries : CmdHeard(raw)
    \/ CmdTimeout
    \/ CmdUnknownValue
    \/ CmdListenError
    \/ CmdUnexpected
    \/ ExchangeHit
    \/ ExchangeMiss
    \/ \E r \in Replies : BackendOk(r)
    \/ \E kind \in RequestExceptions : BackendRequestException(kind)
    \/ BackendMalformed
    \/ CmdSpeak
    \/ CmdReturn
    \/ \E t \in Callers : GenerateAndPlay(t)
    \/ \E t \in Callers : SpeakReturn(t)

Spec == Init /\ [][Next]_vars

(***************************************************************************)
(* Properties                                                              *)
(***************************************************************************)
FailureKinds == RequestExceptions \cup { "malformed" }

\* the items of the hand-off queue that contain the exit phrase
ExitItems == { Lower(RawExit), Lower(RawBoth) }

\* C1: conversation_history never holds more than max_history_length turns
\* (every append is one atomic step of the model, so this is its length after
\* every append); with max_history_length = 0 it is always empty.
C1_HistoryWithinMax ==
    Len(conversation_history) <= max_history_length

\* C2: when the backend call of an exchange has failed, conversation_history
\* after the exchange equals conversation_history before it.
C2_FailedExchangeKeepsHistory ==
    last_exchange.kind \in FailureKinds
        => last_exchange.after = last_exchange.before

\* C3: the fallback string is never a cached response, and no exchange is
\* answered with the fallback string from the cache.
C3_FallbackNeverCached ==
    /\ \A i \in DOMAIN cache : cache[i].value # Fallback
    /\ last_exchange.kind = "hit" => last_exchange.returned # Fallback

\* C4: an exchange whose backend call failed (network failure, timeout or a
\* reply without message/content) has returned the fallback string, and every
\* assistant turn in conversation_history after it was there before it.
C4_FailureReturnsFallback ==
    last_exchange.kind \in FailureKinds
        => /\ last_exchange.returned = Fallback
           /\ \A i \in DOMAIN last_exchange.after :
                 last_exchange.after[i].role = "assistant"
                     => \E j \in DOMAIN last_exchange.before :
                           last_exchange.before[j] = last_exchange.after[i]

\* C5: once the backend has served query q with reply r, a later call of
\* get_ollama_response with q returns r, sends no request and leaves
\* conversation_history as it is.
C5_RepeatedQueryServedFromCache ==
    [][ ( /\ procPc = "cmd_exchange"
          /\ procPc' # "cmd_exchange"
          /\ \E r \in Replies : << user_query, r >> \in answered )
        => /\ procPc' = "cmd_speak"
           /\ << user_query, response' >> \in answered
           /\ conversation_history' = conversation_history
           /\ payload' = payload ]_vars

W5_RepeatedQueryServedFromCache ==
    /\ procPc = "cmd_speak"
    /\ last_exchange.kind = "hit"
    /\ << user_query, response >> \in answered

\* C6: stop_event, once set, stays set; after process_audio has taken an item
\* with the exit phrase off the queue it takes no further item; and when it
\* has ended on such an item, stop_event is set.
C6_ExitStopsDispatch ==
    [][ /\ stop_event => stop_event'
        /\ text \in ExitItems => Len(audio_queue') >= Len(audio_queue)
        /\ (text' \in ExitItems /\ procPc' = "done") => stop_event' ]_vars

W6_ExitStopsDispatch ==
    /\ text \in ExitItems
    /\ procPc = "done"
    /\ stop_event
    /\ audio_queue # << >>

\* C7: while process_audio handles an item with the exit phrase, it neither
\* speaks the acknowledgement nor runs process_user_input.
C7_ExitItemIsExitOnly ==
    text \in ExitItems => procPc \notin CommandPcs

\* C8: a caller inside speak can always return, whether or not its utterance
\* is still being synthesised or played.
C8_SpeakReturnsWithoutWaiting ==
    \A t \in inSpeak : ENABLED SpeakReturn(t)

\* C9: a put on the hand-off queue is never blocked, and while process_audio
\* is inside process_user_input a capture of audio_listener can complete.
C9_CaptureNeverBlocked ==
    /\ lisPc = "put" => ENABLED LisPut
    /\ (procPc \in CommandPcs /\ lisPc = "capture")
           => ENABLED (\E raw \in RawUtterances : LisHeard(raw))

W9_CaptureNeverBlocked ==
    /\ putInCommand
    /\ procPc \in CommandPcs
    /\ audio_queue # << >>

\* the calls of speak made by process_audio and its pool thread
NotByMain(call) == call.caller # "main"
DispatchCalls == SelectSeq(speak_calls, NotByMain)

\* C10: with max_history_length >= 2, when the exchange of the command routine
\* started from an empty conversation_history and the backend replied r, then
\* once r is handed to speak the last three texts given to speak by
\* process_audio and its pool thread are the acknowledgement, the prompt and
\* r, and conversation_history is exactly
\* [user q, assistant r].
C10_EndToEnd ==
    ( /\ procPc = "cmd_join"
      /\ max_history_length >= 2
      /\ last_exchange.kind = "ok"
      /\ last_exchange.before = << >> )
    => /\ Len(DispatchCalls) >= 3
       /\ SubSeq(DispatchCalls, Len(DispatchCalls) - 2, Len(DispatchCalls))
              = << [ caller |-> "processor", text |-> AckText ],
                   [ caller |-> "processor", text |-> PromptText ],
                   [ caller |-> "pool", text |-> last_exchange.returned ] >>
       /\ conversation_history =
              << UserTurn(user_query), AssistantTurn(last_exchange.returned) >>
       /\ response = last_exchange.returned

W10_EndToEnd ==
    /\ procPc = "cmd_join"
    /\ max_history_length >= 2
    /\ last_exchange.kind = "ok"
    /\ last_exchange.before = << >>
    /\ text = Lower(RawWake)
    /\ user_query = Lower(RawQuery1)
    /\ response = << "4" >>

\* C11: when listen_for_input has returned to run, neither the audio_listener
\* thread nor the process_audio thread is still running.
C11_ReturnsAfterBothThreadsEnded ==
    mainPc = "exited"
        => /\ lisPc \in { "new", "done" }
           /\ procPc \in { "new", "done" }

\* C12: in process_user_input a capture that ends with WaitTimeoutError makes
\* the routine speak the "try again" text, one that ends with
\* UnknownValueError the apology; in both cases the routine is left without a
\* call of get_ollama_response and conversation_history, the cache and the
\* request payload stay as they are.
C12_CaptureFailureSkipsBackend ==
    [][ ( /\ procPc = "cmd_listen"
          /\ procPc' # "cmd_listen"
          /\ capture_result' \in { "timeout", "unknown" } )
        => /\ procPc' = "exit_test"
           /\ speak_calls' # << >>
           /\ speak_calls'[Len(speak_calls')].text =
                  ( IF capture_result' = "timeout" THEN TimeoutText ELSE SorryText )
           /\ UNCHANGED << conversation_history, cache, payload, last_exchange,
                           answered >> ]_vars

W12_CaptureFailureSkipsBackend ==
    /\ procPc = "exit_test"
    /\ capture_result = "timeout"
    /\ speak_calls[Len(speak_calls)].text = TimeoutText
    /\ conversation_history # << >>

\* C13: after a capture of audio_listener has failed with an exception other
\* than UnknownValueError and WaitTimeoutError (the microphone is unavailable),
\* the audio_listener loop has ended and stop_event is set.
C13_DeviceFailureEndsCapture ==
    lis_error => (lisPc = "done" /\ stop_event)

\* C14: process_audio leaves process_user_input only by its normal return (to
\* the exit test); a failure that reaches the except Exception clause is
\* answered with the generic apology; and after the return the loop goes on
\* to its next iteration unless the item holds the exit phrase.
C14_RoutineCatchesFailures ==
    [][ /\ procPc \in CommandPcs => procPc' \in CommandPcs \cup { "exit_test" }
        /\ (procPc = "cmd_unexpected" /\ procPc' # procPc)
               => /\ procPc' = "exit_test"
                  /\ speak_calls'[Len(speak_calls')].text = UnexpectedText
        /\ (procPc = "exit_test" /\ procPc' # procPc /\ text \notin ExitItems)
               => procPc' = "check" ]_vars

W14_RoutineCatchesFailures ==
    /\ procPc = "get"
    /\ text = Lower(RawWake)
    /\ last_exchange.kind = "malformed"
    /\ speak_calls[Len(speak_calls)].text = UnexpectedText

(***************************************************************************)
(* _is_wake_word_detected as a function of its text: the wake test of      *)
(* process_audio applied to every text of WakeTexts (texts that are not    *)
(* lower case included, which the recognizer does not deliver).            *)
(***************************************************************************)
WakePrefixes ==
    { << >>, << "t" >>, << "s","a","y"," " >>, << "," >>, << "_" >>, << "2" >> }

WakeCores ==
    { Hey \o Space \o Cortana,
      RawWake,
      << "H","E","Y"," ","C","O","R","T","A","N","A" >>,
      Hey \o Space \o Space \o Cortana,
      Hey \o Space \o << "c","o","r","t","a","n" >> }

WakeSuffixes ==
    { << >>, << "s" >>, << "!" >>, << "_" >>, << " ","n","o","w" >>,
      << ",", " ", "w", "h", "a", "t", " ", "t", "i", "m", "e", " ", "i", "s", " ", "i", "t" >> }

Theyyy == << "t","h","e","y","y","y" >> \o Space \o Cortana

WakeTexts ==
    { p \o c \o x : p \in WakePrefixes, c \in WakeCores, x \in WakeSuffixes }
        \cup { Theyyy }

InitWake ==
    /\ max_history_length = MaxHistoryLength
    /\ elevenlabs_client \in BOOLEAN
    /\ audio_queue = << >>
    /\ stop_event = FALSE
    /\ conversation_history = << >>
    /\ cache = << >>
    /\ mainPc = "join_listener"
    /\ lisPc = "check"
    /\ procPc = "wake_test"
    /\ lisText \in WakeTexts
    /\ text = lisText
    /\ user_query = << >>
    /\ response = << >>
    /\ payload = << >>
    /\ speak_calls = << [ caller |-> "main", text |-> GreetingText ] >>
    /\ inSpeak = { }
    /\ playing = { }
    /\ captures = 1
    /\ last_exchange = Exchange(<< >>, << >>, "none", << >>, << >>)
    /\ answered = { }
    /\ putInCommand = FALSE
    /\ capture_result = "none"
    /\ lis_error = FALSE

NextWake ==
    \/ ProcWake
    \/ ProcNoWake

SpecWake == InitWake /\ [][NextWake]_vars

\* the wake phrase occurs in t, letters compared without case, and is not
\* part of a larger word
PhraseOccursAsWords(t) ==
    \E i \in 1..Len(t) : \E j \in i..Len(t) :
        /\ Lower(SubSeq(t, i, j)) = Lower(wake_word)
        /\ (i = 1 \/ ~IsWordChar(t[i - 1]))
        /\ (j = Len(t) \/ ~IsWordChar(t[j + 1]))

HeyCortanaWhatTime == Hey \o Space \o Cortana \o << ",", " ", "w", "h", "a", "t", " ", "t", "i", "m", "e", " ", "i", "s", " ", "i", "t" >>

\* C15: the wake test succeeds exactly for the texts in which the wake phrase
\* occurs, compared case-insensitively, with a word boundary on both sides;
\* it succeeds for "hey cortana, what time is it" and fails for
\* "they cortana", "hey cortanas" and "theyyy cortana".
C15_WakeWordOnWordBoundaries ==
    /\ procPc = "cmd_mic" => PhraseOccursAsWords(text)
    /\ procPc = "exit_test" => ~PhraseOccursAsWords(text)
    /\ text = HeyCortanaWhatTime => procPc \in { "wake_test", "cmd_mic" }
    /\ text \in { << "t" >> \o Hey \o Space \o Cortana,
                  Hey \o Space \o Cortana \o << "s" >>,
                  Theyyy }
           => procPc \in { "wake_test", "exit_test" }

W15_WakeWordOnWordBoundaries ==
    /\ procPc = "cmd_mic"
    /\ text = HeyCortanaWhatTime

\* C16: once stop_event is set, process_user_input sends no new backend
\* request (no call of get_ollama_response reaches requests.post).
C16_NoRequestAfterShutdown ==
    [][ stop_event => ~(procPc = "cmd_exchange" /\ procPc' = "cmd_post") ]_vars

(***************************************************************************)
(* Scheduling: every thread that can take a step eventually takes one, and *)
(* every blocking call (capture, recognition, backend request, synthesis   *)
(* and playback) eventually returns.  The KeyboardInterrupt of the main    *)
(* thread is not forced to happen.                                         *)
(***************************************************************************)
ListenerNext ==
    \/ LisStop
    \/ LisBegin
    \/ \E raw \in RawUtterances : LisHeard(raw)
    \/ LisUnintelligible
    \/ LisError
    \/ LisPut

ProcessorNext ==
    \/ ProcStop
    \/ ProcPoll
    \/ ProcGet
    \/ ProcEmpty
    \/ ProcWake
    \/ ProcNoWake
    \/ ProcExit
    \/ ProcNoExit
    \/ ProcShutdown
    \/ CmdPrompt
    \/ CmdMicError
    \/ \E raw \in RawQueries : CmdHeard(raw)
    \/ CmdTimeout
    \/ CmdUnknownValue
    \/ CmdListenError
    \/ CmdUnexpected
    \/ ExchangeHit
    \/ ExchangeMiss
    \/ \E r \in Replies : BackendOk(r)
    \/ \E kind \in RequestExceptions : BackendRequestException(kind)
    \/ BackendMalformed
    \/ CmdSpeak
    \/ CmdReturn

SpeechNext ==
    \E t \in Callers : GenerateAndPlay(t) \/ SpeakReturn(t)

\* max_history_length only decides which turns get_ollama_response keeps; no
\* loop reads it, so the fair specification starts from one value of it.
InitFair ==
    /\ Init
    /\ max_history_length = MaxHistoryLength

FairSpec ==
    /\ InitFair
    /\ [][Next]_vars
    /\ WF_vars(ListenerNext)
    /\ WF_vars(ProcessorNext)
    /\ WF_vars(SpeechNext)

\* both loops have ended (or their threads were never started)
LoopsEnded == lisPc \in { "new", "done" } /\ procPc \in { "new", "done" }

\* C17: once stop_event is set, audio_listener starts no capture and
\* process_audio starts no queue poll from their loop conditions, a poll of
\* the empty queue leads back to the loop condition, and both loops
\* eventually end.
C17_LoopsEndAfterShutdown ==
    /\ [][ /\ stop_event => /\ ~(lisPc = "check" /\ lisPc' = "capture")
                            /\ ~(procPc = "check" /\ procPc' = "get")
           /\ (procPc = "get" /\ audio_queue = << >> /\ procPc' # procPc)
                  => procPc' = "check" ]_vars
    /\ stop_event ~> LoopsEnded

W17_LoopsEndAfterShutdown ==
    /\ stop_event
    /\ lisPc = "done"
    /\ procPc = "done"
    /\ text # << >>
    /\ text \notin ExitItems

\* C18: while a backend request is in flight, its message list is not empty
\* and ends with the user turn of the current query.
C18_RequestEndsWithQuery ==
    procPc = "cmd_post"
        => /\ payload # << >>
           /\ payload[Len(payload)] = UserTurn(user_query)

\* C19: at no time are two synthesis/playback operations in progress.
C19_OneUtteranceAtATime ==
    Cardinality(playing) <= 1

\* C20: the messages of a backend request are the conversation history as the
\* exchange's own user-turn append-and-trim left it, and they stay so until
\* the request completes: conversation_history changes only in the two steps
\* of the one exchange in progress (the user-turn append that starts the
\* request, and the step that completes the request), never while the request
\* is in flight, whatever the other threads do meanwhile.
C20_RequestFromConsistentSnapshot ==
    [][ /\ procPc' = "cmd_post" => payload' = conversation_history'
        /\ conversation_history' # conversation_history
               => \/ procPc = "cmd_exchange" /\ procPc' = "cmd_post"
                  \/ procPc = "cmd_post" /\ procPc' = "cmd_speak"
      ]_vars

\* a request is in flight, with its messages, and audio_listener has put a
\* text on the queue since this command routine began
W20_RequestFromConsistentSnapshot ==
    /\ procPc = "cmd_post"
    /\ payload # << >>
    /\ putInCommand
    /\ audio_queue # << >>

====
